---- MODULE Spec2Model ----
(***************************************************************************)
(* LinkedInJobBot (src/linkedin_job_bot.py): the application wizard        *)
(* (apply_to_job, _process_application_steps), the listing collector       *)
(* (scroll_through_jobs) and the orchestrator (run) as state machines.     *)
(*                                                                         *)
(* The browser is the environment: every driver query (find_elements,      *)
(* wait.until, click) answers nondeterministically, and a click or a       *)
(* lookup may raise one of the four Selenium exceptions the module         *)
(* imports.                                                                *)
(***************************************************************************)
EXTENDS Integers, Sequences, FiniteSets, TLC

\* ------------------------------------------------------------------ bounds
\* Wizard loop iterations explored in one attempt (the code sets no bound on
\* them, only on current_step).
MaxCycles == 11
\* Fields carrying a validation error on one screen.
MaxFields == 2
\* Job cards the search page can render (collector).
MaxCards == 3
\* Largest max_jobs given to the collector.
MaxJobs == 3
\* Iterations of the collector's while loop that are counted.
MaxScrolls == 4
\* Clicks on one job card that are counted.
MaxClicks == 2
\* Words of a question given to get_answer_for_question.
MaxWords == 2
MaxStarts == 3
\* Job cards of the search page in a whole run.
MaxFeed == 5
\* Largest max_applications given to run().
MaxApplications == 2

\* ------------------------------------------------------- program constants
max_steps == 10

\* Selenium exceptions imported by the module.
Timeout == "TimeoutException"
NoSuchElement == "NoSuchElementException"
ClickIntercepted == "ElementClickInterceptedException"
StaleElement == "StaleElementReferenceException"

\* What element.click() can do: succeed, or raise.
ClickOutcomes == {"ok", ClickIntercepted, StaleElement}

\* except clause of apply_to_job and of _process_application_steps.
CaughtByNavigator == {Timeout, NoSuchElement, ClickIntercepted}

\* Texts appended to notes by _process_application_steps.
NoteUnclear == "Submission status unclear"
NoteRequired == "Required field"
NotePhone == "Filled in phone number"
NoteResume == "Uploaded resume"
NoteFollow == "Unchecked 'Follow company'"
NoteManual == "Requires manual intervention"
NoteError == "Error in step"

\* Return messages of apply_to_job / _process_application_steps.
MsgSubmitted == "Application submitted successfully"
MsgManual == "Application requires manual intervention"
MsgErrorDuring == "Error during application"
MsgTooManySteps == "Application process took too many steps"
MsgError == "Error"
MsgNotEasyApply == "Not an Easy Apply job"

VARIABLES
    \* ---- apply_to_job / _process_application_steps (one attempt)
    apc,              \* position in the attempt
    has_easy_apply,   \* job_data["has_easy_apply"]
    phone_number,     \* self.phone_number ("" when not configured)
    phone_value,      \* the value attribute of the form's tel input
    resume_path,      \* self.resume_path ("" when not configured)
    current_step,     \* local current_step
    notes,            \* local notes, as the set of texts it holds
    submit_button,    \* local submit_button is non-empty
    success_elements, \* local success_elements is non-empty
    result,           \* what the attempt returned or raised
    exc,              \* exception raised inside the attempt, "none" if none
    cycles,           \* iterations of the while loop started so far
    ui,               \* driver operations of the current loop iteration, in order
    sawSubmit,        \* some cycle found a submit button
    noContinue,       \* some cycle found no continue button
    follow_checked,   \* the page's "follow company" checkbox is selected
    \* ---- the search page and scroll_through_jobs
    feed,             \* the cards of the search: has_easy_apply of card k (its URL is k)
    shown,            \* cards currently rendered in the list
    cpc,              \* position in scroll_through_jobs
    max_jobs,         \* parameter max_jobs
    job_cards,        \* len(job_cards) of the last snapshot (the first shown cards)
    i,                \* index of the for loop (0-based, as in the code)
    last_index,       \* end of the for loop's range
    job_count,        \* local job_count
    job_listings,     \* job_listings: the cards collected, in order
    last_height,      \* local last_height
    scrolls,          \* iterations of the while loop started, counted up to MaxScrolls
    clicks,           \* clicks[k]: clicks on card k so far, counted up to MaxClicks
    show_more,        \* what the last look for "Show more jobs" gave, "none" before
    cresult,          \* "none", "return" or the exception that left the collector
    \* ---- run
    rpc,              \* position in run()
    max_applications, \* parameter max_applications
    application_count,\* local application_count
    job_index,        \* position of "for job_data in job_listings" (1-based)
    applications_data,\* self.applications_data, the ledger
    successful_applications,
    failed_applications,
    aborted,          \* an exception is leaving run()
    quits,            \* calls of driver.quit()
    navigated,        \* the listings handed to apply_to_job, in order
    interrupt,        \* where in run() a KeyboardInterrupt arrived, "none" if none
    summary_logged,   \* the summary counts were logged (lines 688-690)
    csv_file,         \* the rows of the file at self.csv_path
    sleeps,           \* pacing delays of line 682 taken so far
    phases,           \* the phases of run() entered so far, in order
    failed_phase,     \* the phase whose call returned False, "none" if none
    \* ---- utils.get_answer_for_question (one call)
    upc,              \* position of the call
    question,         \* argument question, as its words in order
    default_answers,  \* argument default_answers
    answer,           \* the value returned
    \* ---- the entry points: module main, main() of the bot module, the GUI
    entry,            \* which entry point started the program
    config,           \* the environment's settings
    epc,              \* position of the main thread
    validation,       \* result of validate_config(), "none" while not called
    sessions,         \* browser sessions open (created and not quit)
    tpc,              \* tpc[t]: position of the t-th bot thread of the GUI
    bot_thread,       \* self.bot_thread: 0 for None, else the thread's number
    start_button,     \* the Start button is enabled
    callbacks,        \* root.after callbacks waiting that re-enable the button
    presses           \* calls of start_bot so far

avars == <<apc, phone_value, has_easy_apply, phone_number, resume_path, current_step, notes,
           submit_button, success_elements, result, exc, cycles, ui,
           sawSubmit, noContinue, follow_checked>>

cvars == <<feed, shown, cpc, max_jobs, job_cards, i, last_index, job_count,
           job_listings, last_height, scrolls, clicks, show_more, cresult>>

rvars == <<rpc, max_applications, application_count, job_index, applications_data,
           successful_applications, failed_applications, aborted, quits,
           navigated, interrupt, summary_logged, csv_file,
           sleeps, phases, failed_phase>>

uvars == <<upc, question, default_answers, answer>>

evars == <<entry, config, epc, validation, sessions, tpc, bot_thread,
           start_button, callbacks, presses>>

vars == <<avars, cvars, rvars, uvars, evars>>

\* An action of the attempt leaves the collector and run() alone.
ApplyFrame == UNCHANGED <<cvars, rvars, uvars, evars>>

NoResult == [ret |-> "none", status |-> FALSE, msg |-> "", notes |-> {}]

\* ------------------------------------------------------------ control flow
\* return status, msg (with the joined notes n)
Return(st, m, n) ==
    /\ apc' = "done"
    /\ result' = [ret |-> "return", status |-> st, msg |-> m, notes |-> n]
    /\ exc' = exc

\* An exception raised inside the try block of the wizard loop: the except
\* clause takes the listed kinds, any other kind leaves apply_to_job.
Throw(e) ==
    /\ exc' = e
    /\ IF e \in CaughtByNavigator
         THEN /\ apc' = "except"
              /\ result' = result
         ELSE /\ apc' = "done"
              /\ result' = [ret |-> "raise", status |-> FALSE, msg |-> e, notes |-> {}]

Goto(p) ==
    /\ apc' = p
    /\ result' = result
    /\ exc' = exc

\* The order of the checks inside one loop iteration.
StepAfterFieldsFirst(p) ==
    CASE p = "review" -> "fields"
      [] p = "fields" -> "submit"
      [] p = "submit" -> "upload"
      [] p = "upload" -> "follow"
      [] p = "follow" -> "next"

StepAfterFieldsLast(p) ==
    CASE p = "review" -> "submit"
      [] p = "submit" -> "fields"
      [] p = "fields" -> "next"
      [] p = "upload" -> "follow"
      [] p = "follow" -> "next"

StepAfter(p) ==
    CASE p = "review" -> "submit"
      [] p = "submit" -> "fields"
      [] p = "fields" -> "upload"
      [] p = "upload" -> "follow"
      [] p = "follow" -> "next"

\* ------------------------------------------------------------ apply_to_job
\* Lines 417-439: the guard, the navigation and the Easy Apply click.
ApplyToJob ==
    /\ apc = "apply"
    /\ ApplyFrame
    /\ UNCHANGED <<phone_value, has_easy_apply, follow_checked, phone_number, resume_path, submit_button,
                   success_elements, cycles, sawSubmit, noContinue>>
    /\ IF ~has_easy_apply
         THEN /\ Return(FALSE, MsgNotEasyApply, {})
              /\ UNCHANGED <<current_step, notes, ui>>
         ELSE \E o \in {"ok", Timeout, ClickIntercepted, StaleElement} :
                /\ ui' = IF o = Timeout THEN <<"get">> ELSE <<"get", "click_easy_apply">>
                /\ IF o = "ok"
                     THEN /\ Goto("loop")
                          /\ current_step' = 1
                          /\ notes' = {}
                     ELSE /\ UNCHANGED <<current_step, notes>>
                          /\ exc' = o
                          /\ apc' = "done"
                          /\ result' =
                               IF o \in CaughtByNavigator
                                 THEN [ret |-> "return", status |-> FALSE,
                                       msg |-> MsgError, notes |-> {}]
                                 ELSE [ret |-> "raise", status |-> FALSE,
                                       msg |-> o, notes |-> {}]

\* ------------------------------------------- _process_application_steps
\* while current_step <= max_steps ... return False, "... too many steps"
WhileTest(step) == step <= max_steps

LoopTest ==
    /\ apc = "loop"
    /\ ApplyFrame
    /\ UNCHANGED <<phone_value, has_easy_apply, follow_checked, phone_number, resume_path, current_step, notes,
                   submit_button, success_elements, sawSubmit, noContinue>>
    /\ IF WhileTest(current_step)
         THEN /\ cycles < MaxCycles
              /\ Goto("review")
              /\ cycles' = cycles + 1
              /\ ui' = <<>>
         ELSE /\ Return(FALSE, MsgTooManySteps, {})
              /\ UNCHANGED <<cycles, ui>>

\* Lines 458-465.
ReviewStep ==
    /\ apc = "review"
    /\ ApplyFrame
    /\ UNCHANGED <<phone_value, has_easy_apply, follow_checked, phone_number, resume_path, current_step, notes,
                   submit_button, success_elements, cycles, sawSubmit, noContinue>>
    /\ \E review_button \in BOOLEAN, c \in ClickOutcomes :
         IF ~review_button
           THEN /\ Goto(StepAfter("review"))
                /\ ui' = ui
           ELSE /\ ui' = Append(ui, "click_review")
                /\ IF c = "ok" THEN Goto(StepAfter("review")) ELSE Throw(c)

\* Lines 467-496.
SubmitStep ==
    /\ apc = "submit"
    /\ ApplyFrame
    /\ UNCHANGED <<phone_value, has_easy_apply, follow_checked, phone_number, resume_path, current_step,
                   cycles, noContinue>>
    /\ \E found \in BOOLEAN, c \in ClickOutcomes, confirmation \in BOOLEAN,
          success \in BOOLEAN, close_button \in BOOLEAN, d \in ClickOutcomes :
         /\ submit_button' = found
         /\ sawSubmit' = (sawSubmit \/ found)
         /\ IF ~found
              THEN /\ Goto(StepAfter("submit"))
                   /\ UNCHANGED <<ui, notes, success_elements>>
              ELSE IF c # "ok"
              THEN /\ Throw(c)
                   /\ ui' = Append(ui, "click_submit")
                   /\ UNCHANGED <<notes, success_elements>>
              ELSE IF ~confirmation
              THEN /\ Throw(Timeout)
                   /\ ui' = Append(ui, "click_submit")
                   /\ UNCHANGED <<notes, success_elements>>
              ELSE IF ~success
              THEN /\ Goto(StepAfter("submit"))
                   /\ ui' = Append(ui, "click_submit")
                   /\ notes' = notes \cup {NoteUnclear}
                   /\ success_elements' = FALSE
              ELSE IF ~close_button
              THEN /\ Throw(NoSuchElement)
                   /\ ui' = Append(ui, "click_submit")
                   /\ notes' = notes
                   /\ success_elements' = TRUE
              ELSE /\ ui' = ui \o <<"click_submit", "click_dismiss">>
                   /\ notes' = notes
                   /\ success_elements' = TRUE
                   /\ IF d = "ok" THEN Return(TRUE, MsgSubmitted, {}) ELSE Throw(d)

\* A value the form already holds in its tel input when the wizard opens.
Prefilled == "5550000000"

\* if not phone_input.get_attribute("value") (line 519)
NeedsPhoneWhateverItHolds(value) == TRUE

NeedsPhone(value) == value = ""

\* phone_input.send_keys(self.phone_number) (line 520): the keys go after
\* what the input holds.
SendKeys(value, keys) == IF value = "" THEN keys ELSE "5550000000+"

\* Lines 498-521.  n fields carry an error; bad is the first one whose label
\* lookup raises (0: none does); phone_inputs: the screen shows the tel
\* input, whose value stays what it is from screen to screen.
FieldsStep ==
    /\ apc = "fields"
    /\ ApplyFrame
    /\ UNCHANGED <<has_easy_apply, follow_checked, phone_number, resume_path, current_step,
                   submit_button, success_elements, cycles, sawSubmit, noContinue>>
    /\ \E n \in 0..MaxFields :
         IF n = 0
           THEN /\ Goto(StepAfter("fields"))
                /\ UNCHANGED <<ui, notes, phone_value>>
           ELSE \E bad \in 0..n, e \in {NoSuchElement, StaleElement}, phone_inputs \in BOOLEAN :
                  IF bad > 0
                    THEN /\ Throw(e)
                         /\ ui' = Append(ui, "read_field")
                         /\ notes' = IF bad > 1 THEN notes \cup {NoteRequired} ELSE notes
                         /\ phone_value' = phone_value
                    ELSE /\ Goto(StepAfter("fields"))
                         /\ IF phone_inputs /\ phone_number # "" /\ NeedsPhone(phone_value)
                              THEN /\ ui' = ui \o <<"read_field", "type_phone">>
                                   /\ notes' = notes \cup {NoteRequired, NotePhone}
                                   /\ phone_value' = SendKeys(phone_value, phone_number)
                              ELSE /\ ui' = Append(ui, "read_field")
                                   /\ notes' = notes \cup {NoteRequired}
                                   /\ phone_value' = phone_value

\* Lines 523-531.
UploadStep ==
    /\ apc = "upload"
    /\ ApplyFrame
    /\ UNCHANGED <<phone_value, has_easy_apply, follow_checked, phone_number, resume_path, current_step,
                   submit_button, success_elements, cycles, sawSubmit, noContinue>>
    /\ Goto(StepAfter("upload"))
    /\ \E resume_uploads \in BOOLEAN :
         IF resume_uploads /\ resume_path # ""
           THEN /\ ui' = Append(ui, "upload")
                /\ notes' = notes \cup {NoteResume}
           ELSE UNCHANGED <<ui, notes>>

\* Line 539: a click on the label of a checkbox toggles the checkbox.
ClickCheckbox(checked) == ~checked

\* Lines 533-540.
FollowStep ==
    /\ apc = "follow"
    /\ ApplyFrame
    /\ UNCHANGED <<phone_value, has_easy_apply, phone_number, resume_path, current_step,
                   submit_button, success_elements, cycles, sawSubmit, noContinue>>
    /\ \E follow_checkboxes \in BOOLEAN, c \in ClickOutcomes :
         IF ~follow_checkboxes
           THEN /\ Goto(StepAfter("follow"))
                /\ UNCHANGED <<ui, notes, follow_checked>>
           ELSE /\ ui' = Append(ui, "click_follow")
                /\ IF c = "ok"
                     THEN /\ Goto(StepAfter("follow"))
                          /\ notes' = notes \cup {NoteFollow}
                          /\ follow_checked' = ClickCheckbox(follow_checked)
                     ELSE /\ Throw(c)
                          /\ UNCHANGED <<notes, follow_checked>>

\* Lines 542-551.
StepAfterContinueKept(step) == step

StepAfterContinue(step) == step + 1

NextStep ==
    /\ apc = "next"
    /\ ApplyFrame
    /\ UNCHANGED <<phone_value, has_easy_apply, follow_checked, phone_number, resume_path, notes,
                   submit_button, success_elements, cycles, sawSubmit>>
    /\ \E next_button \in BOOLEAN, c \in ClickOutcomes :
         IF ~next_button
           THEN /\ Goto("manual")
                /\ noContinue' = TRUE
                /\ UNCHANGED <<ui, current_step>>
           ELSE /\ ui' = Append(ui, "click_next")
                /\ noContinue' = noContinue
                /\ IF c = "ok"
                     THEN /\ Goto("loop")
                          /\ current_step' = StepAfterContinue(current_step)
                     ELSE /\ Throw(c)
                          /\ current_step' = current_step

\* The dismiss sequence of lines 560-572 and 582-594: the operations it
\* performs, and whether the Dismiss click went through.
ExitOps(exit_buttons, c, discard_buttons) ==
    IF ~exit_buttons THEN <<>>
    ELSE IF c # "ok" THEN <<"click_dismiss">>
    ELSE IF ~discard_buttons THEN <<"click_dismiss">>
    ELSE <<"click_dismiss", "click_discard">>

\* Lines 553-574.
ManualStep ==
    /\ apc = "manual"
    /\ ApplyFrame
    /\ UNCHANGED <<phone_value, has_easy_apply, follow_checked, phone_number, resume_path, current_step,
                   submit_button, success_elements, cycles, sawSubmit, noContinue>>
    /\ IF submit_button
         THEN /\ Goto("loop")
              /\ UNCHANGED <<ui, notes>>
         ELSE \E exit_buttons \in BOOLEAN, c \in ClickOutcomes,
                 discard_buttons \in BOOLEAN, d \in ClickOutcomes :
                /\ notes' = notes \cup {NoteManual}
                /\ ui' = ui \o ExitOps(exit_buttons, c, discard_buttons)
                /\ IF exit_buttons /\ c # "ok" THEN Throw(c)
                   ELSE IF exit_buttons /\ discard_buttons /\ d # "ok" THEN Throw(d)
                   ELSE Return(FALSE, MsgManual, notes')

\* Lines 576-598: the except clause; whatever the dismiss sequence raises is
\* swallowed by "except Exception: pass".
ExceptStep ==
    /\ apc = "except"
    /\ ApplyFrame
    /\ UNCHANGED <<phone_value, has_easy_apply, follow_checked, phone_number, resume_path, current_step,
                   submit_button, success_elements, cycles, sawSubmit, noContinue>>
    /\ \E exit_buttons \in BOOLEAN, c \in ClickOutcomes, discard_buttons \in BOOLEAN :
         /\ notes' = notes \cup {NoteError}
         /\ ui' = ui \o ExitOps(exit_buttons, c, discard_buttons)
         /\ Return(FALSE, MsgErrorDuring, notes')

\* ------------------------------------------------------ scroll_through_jobs
\* All finite has_easy_apply patterns of at most n cards.
Feeds(n) == UNION {[1..k -> BOOLEAN] : k \in 0..n}

Min(a, b) == IF a < b THEN a ELSE b

\* document.body.scrollHeight: the content height signal grows with the
\* number of rendered cards.
ScrollHeight(n) == n

CollectFrame == UNCHANGED <<avars, rvars, uvars, evars>>

\* self.wait.until(presence_of_element_located(...)) raises TimeoutException
\* when no job card is rendered (lines 292-296).
WaitNeverTimesOut(cards) == FALSE

WaitTimesOut(cards) == cards = 0

\* Lines 286-300: the first wait and the initial locals.
ScrollStart ==
    /\ cpc = "start"
    /\ CollectFrame
    /\ UNCHANGED <<feed, shown, max_jobs, job_cards, i, last_index, scrolls,
                   clicks, show_more>>
    /\ job_listings' = <<>>
    /\ IF WaitTimesOut(shown)
         THEN /\ cpc' = "done"
              /\ cresult' = "return"
              /\ UNCHANGED <<last_height, job_count>>
         ELSE /\ cpc' = "while"
              /\ last_height' = ScrollHeight(shown)
              /\ job_count' = 0
              /\ cresult' = cresult

\* range(job_count, min(len(job_cards), max_jobs)) (line 310)
RangeEndAllCards(cards, limit) == cards

RangeEnd(cards, limit) == Min(cards, limit)

RangeStart(count) == count

\* Lines 302-310: the while test, the snapshot and the range of the for loop.
WhileCards ==
    /\ cpc = "while"
    /\ CollectFrame
    /\ UNCHANGED <<feed, shown, max_jobs, job_count, job_listings, last_height,
                   clicks, show_more>>
    /\ IF job_count < max_jobs
         THEN /\ scrolls' = Min(scrolls + 1, MaxScrolls)
              /\ job_cards' = shown
              /\ i' = RangeStart(job_count)
              /\ last_index' = RangeEnd(shown, max_jobs)
              /\ cpc' = "for"
              /\ cresult' = cresult
         ELSE /\ cpc' = "done"
              /\ cresult' = "return"
              /\ UNCHANGED <<scrolls, job_cards, i, last_index>>

\* Lines 310-329: one pass of the for body on card i (card i + 1 of the feed):
\* the click raises, or the extraction gives None, or the card is appended.
ProcessCard ==
    /\ cpc = "for"
    /\ CollectFrame
    /\ UNCHANGED <<feed, shown, max_jobs, job_cards, last_index, last_height,
                   scrolls, show_more, cresult>>
    /\ IF i < last_index
         THEN /\ i' = i + 1
              /\ cpc' = "for"
              /\ clicks' = [clicks EXCEPT ![i + 1] = Min(@ + 1, MaxClicks)]
              /\ \E o \in {"ok", "None", StaleElement, ClickIntercepted, NoSuchElement} :
                   IF o = "ok"
                     THEN /\ job_listings' = Append(job_listings, i + 1)
                          /\ job_count' = job_count + 1
                     ELSE UNCHANGED <<job_listings, job_count>>
         ELSE /\ cpc' = "scroll"
              /\ UNCHANGED <<i, job_listings, job_count, clicks>>

\* except NoSuchElementException: ... break (lines 345-347), then the return
\* of line 352.
AfterEndOfResultsRetry == "while"

AfterEndOfResults == "done"

\* Lines 331-349: scroll, compare the height, try "Show more jobs".  The page
\* may render more cards after the scroll and after the button click.
ScrollDown ==
    /\ cpc = "scroll"
    /\ CollectFrame
    /\ UNCHANGED <<feed, max_jobs, job_cards, i, last_index, job_count,
                   job_listings, scrolls, clicks>>
    /\ \E loaded \in shown..Len(feed) :
         LET new_height == ScrollHeight(loaded) IN
         /\ last_height' = new_height
         /\ IF new_height # last_height
              THEN /\ shown' = loaded
                   /\ show_more' = "none"
                   /\ cpc' = "while"
                   /\ cresult' = cresult
              ELSE \E o \in {"absent", "ok", ClickIntercepted, StaleElement},
                      more \in loaded..Len(feed) :
                     /\ show_more' = o
                     /\ IF o = "absent"
                          THEN /\ shown' = loaded
                               /\ cpc' = AfterEndOfResults
                               /\ cresult' = "return"
                          ELSE IF o = "ok"
                          THEN /\ shown' = more
                               /\ cpc' = "while"
                               /\ cresult' = cresult
                          ELSE /\ shown' = loaded
                               /\ cpc' = "done"
                               /\ cresult' = o

\* ---------------------------------------------------------------------- run
\* max_jobs = max_applications * 2 (line 665)
MaxJobsForTriple(m) == m * 3

MaxJobsFor(m) == m * 2

\* The subsequences of <<1, ..., n>>, as increasing lists of card numbers.
RECURSIVE Subsequences(_)
Subsequences(n) ==
    IF n = 0 THEN {<<>>}
    ELSE LET rest == Subsequences(n - 1)
         IN rest \cup {Append(q, n) : q \in rest}

\* What scroll_through_jobs(m) hands to run() on a page of n cards: cards
\* among the first m of the page (the for loop never indexes beyond
\* min(len(job_cards), max_jobs)), at most m of them, in page order.  run()
\* reads only has_easy_apply of a listing and copies its URL to the ledger, so
\* every list of at most m Easy Apply flags the collector can return is the
\* flag list of one of these results on some page; SpecCollect has the
\* collector step by step, repeated cards included.
CollectResultsOfWholePage(n, m) == Subsequences(n)

CollectResults(n, m) == Subsequences(Min(n, IF m < 0 THEN 0 ELSE m))

\* What apply_to_job hands to run() for an Easy Apply listing: its return
\* statements (lines 443, 493, 574, 598, 600), and the exception its except
\* clauses do not take.
ApplyOutcomes ==
    { [ret |-> "return", status |-> TRUE, msg |-> MsgSubmitted, notes |-> {}],
      [ret |-> "return", status |-> FALSE, msg |-> MsgManual, notes |-> {NoteManual}],
      [ret |-> "return", status |-> FALSE, msg |-> MsgErrorDuring, notes |-> {NoteError}],
      [ret |-> "return", status |-> FALSE, msg |-> MsgTooManySteps, notes |-> {}],
      [ret |-> "return", status |-> FALSE, msg |-> MsgError, notes |-> {}],
      [ret |-> "raise", status |-> FALSE, msg |-> StaleElement, notes |-> {}] }

\* 'Success' if status else 'Failed' (line 615)
StatusTextAlwaysSuccess(status) == "Success"

StatusText(status) == IF status THEN "Success" ELSE "Failed"

\* Lines 685-686.
SuccessCount(data) == Cardinality({k \in DOMAIN data : data[k].status = "Success"})

FailedCountPlainFailures(data) ==
    Cardinality({k \in DOMAIN data :
                   data[k].status = "Failed" /\ data[k].notes # MsgManual})

FailedCountAllRows(data) == Len(data)

FailedCount(data) == Len(data) - SuccessCount(data)

\* The header row written by __init__ (lines 83-88), and the row writerow
\* writes for a ledger entry (lines 627-635), in the header's column order;
\* of the seven columns the model keeps the status, the URL and the notes.
CsvHeader == <<"Application Status", "Job URL", "Notes">>

CsvRow(application_data) ==
    <<application_data.status, application_data.url, application_data.notes>>

\* self.applications_data.append(application_data) (line 622)
AppendRowInFront(data, row) == <<row>> \o data

AppendRow(data, row) == Append(data, row)

\* open(self.csv_path, 'a') ... writer.writerow(...) (lines 625-635); the with
\* block closes the file before log_application returns.
WriteCsvLater(file, row) == file

WriteCsv(file, row) == Append(file, CsvRow(row))

\* job_data.get("has_easy_apply", False) (line 673)
IsEasyApplyAlways(job_data) == TRUE

IsEasyApply(job_data) == feed[job_data]

\* application_count >= max_applications (line 670)
BudgetMetLate(count, budget) == count > budget

BudgetMet(count, budget) == count >= budget

\* for job_data in job_listings (line 669): the listing of the j-th pass.
ListingAtFromEnd(listings, j) == listings[Len(listings) + 1 - j]

ListingAt(listings, j) == listings[j]

\* Every way out of the try block (a return, an exception, its end) passes
\* through the finally clause (lines 700-703).
ExitRunWithoutFinally == "done"

ExitRun == "finally"

\* The positions inside the try block of run().
TryBlock == {"login", "navigate", "search", "collect", "for", "apply", "log",
             "count", "summary"}

RunFrame == UNCHANGED <<apc, phone_value, has_easy_apply, phone_number, resume_path, current_step,
                        notes, submit_button, success_elements, exc, cycles, ui,
                        sawSubmit, noContinue, follow_checked,
                        feed, shown, cpc, max_jobs, job_cards, i, last_index,
                        job_count, last_height, scrolls, clicks, show_more, cresult,
                        uvars, evars>>

\* if not self.verify_login(): ... return (lines 650-662): where run() goes
\* after a phase that returned ok.
AfterPhaseWhateverItReturned(ok, next) == next

AfterPhase(ok, next) == IF ok THEN next ELSE ExitRun

\* Lines 650-662: verify_login, navigate_to_jobs, search_jobs; each returns
\* False on failure and run() returns.
VerifyLogin ==
    /\ rpc = "login"
    /\ RunFrame
    /\ UNCHANGED <<result, job_listings, max_applications, application_count, job_index,
                   applications_data, successful_applications, failed_applications,
                   aborted, quits, navigated, interrupt, summary_logged, csv_file,
                   sleeps>>
    /\ phases' = Append(phases, "login")
    /\ \E ok \in BOOLEAN :
         /\ rpc' = AfterPhase(ok, "navigate")
         /\ failed_phase' = IF ok THEN failed_phase ELSE "login"

NavigateToJobs ==
    /\ rpc = "navigate"
    /\ RunFrame
    /\ UNCHANGED <<result, job_listings, max_applications, application_count, job_index,
                   applications_data, successful_applications, failed_applications,
                   aborted, quits, navigated, interrupt, summary_logged, csv_file,
                   sleeps>>
    /\ phases' = Append(phases, "navigate")
    /\ \E ok \in BOOLEAN :
         /\ rpc' = AfterPhase(ok, "search")
         /\ failed_phase' = IF ok THEN failed_phase ELSE "navigate"

SearchJobs ==
    /\ rpc = "search"
    /\ RunFrame
    /\ UNCHANGED <<result, job_listings, max_applications, application_count, job_index,
                   applications_data, successful_applications, failed_applications,
                   aborted, quits, navigated, interrupt, summary_logged, csv_file,
                   sleeps>>
    /\ phases' = Append(phases, "search")
    /\ \E ok \in BOOLEAN :
         /\ rpc' = AfterPhase(ok, "collect")
         /\ failed_phase' = IF ok THEN failed_phase ELSE "search"

\* Lines 665-668: the collector's result, or the exception leaving it.
ScrollThroughJobs ==
    /\ rpc = "collect"
    /\ RunFrame
    /\ UNCHANGED <<result, max_applications, applications_data,
                   successful_applications, failed_applications, quits,
                   navigated, interrupt, summary_logged, csv_file,
                   sleeps, failed_phase>>
    /\ phases' = Append(phases, "collect")
    /\ \/ /\ \E r \in CollectResults(Len(feed), MaxJobsFor(max_applications)) :
               job_listings' = r
          /\ application_count' = 0
          /\ job_index' = 1
          /\ rpc' = "for"
          /\ aborted' = aborted
       \/ /\ \E e \in {ClickIntercepted, StaleElement} : aborted' = TRUE
          /\ rpc' = ExitRun
          /\ UNCHANGED <<job_listings, application_count, job_index>>

\* Lines 669-674: next listing, the budget test, the Easy Apply test and the
\* call of apply_to_job; at "apply" the listing is inside apply_to_job.
ForJob ==
    /\ rpc = "for"
    /\ RunFrame
    /\ UNCHANGED <<result, job_listings, max_applications, application_count,
                   applications_data, successful_applications, failed_applications,
                   aborted, quits, interrupt, summary_logged, csv_file,
                   sleeps, failed_phase>>
    /\ IF job_index > Len(job_listings)
         THEN rpc' = "summary" /\ UNCHANGED <<job_index, navigated, phases>>
       ELSE IF BudgetMet(application_count, max_applications)
         THEN rpc' = "summary" /\ UNCHANGED <<job_index, navigated, phases>>
       ELSE IF IsEasyApply(ListingAt(job_listings, job_index))
         THEN /\ rpc' = "apply"
              /\ job_index' = job_index
              /\ navigated' = Append(navigated, ListingAt(job_listings, job_index))
              /\ phases' = IF phases[Len(phases)] = "apply" THEN phases
                            ELSE Append(phases, "apply")
       ELSE /\ rpc' = "for"
            /\ job_index' = job_index + 1
            /\ UNCHANGED <<navigated, phases>>

\* Line 674: apply_to_job returns or raises.
ApplyJob ==
    /\ rpc = "apply"
    /\ RunFrame
    /\ UNCHANGED <<job_listings, max_applications, application_count, job_index,
                   applications_data, successful_applications, failed_applications,
                   quits, navigated, interrupt, summary_logged, csv_file,
                   sleeps, phases, failed_phase>>
    /\ \E r \in ApplyOutcomes :
         /\ result' = r
         /\ IF r.ret = "raise"
              THEN rpc' = ExitRun /\ aborted' = TRUE
              ELSE rpc' = "log" /\ aborted' = aborted

\* Line 675 and log_application (lines 602-637).
LogApplication ==
    /\ rpc = "log"
    /\ RunFrame
    /\ UNCHANGED <<result, job_listings, max_applications, application_count, job_index,
                   successful_applications, failed_applications, aborted, quits,
                   navigated, interrupt, summary_logged,
                   sleeps, phases, failed_phase>>
    /\ LET application_data == [url |-> ListingAt(job_listings, job_index),
                                status |-> StatusText(result.status),
                                notes |-> result.msg]
       IN /\ applications_data' = AppendRow(applications_data, application_data)
          /\ csv_file' = WriteCsv(csv_file, application_data)
    /\ rpc' = "count"

\* Lines 677-682: count a success, sleep, go to the next listing.
CountAndSleep ==
    /\ rpc = "count"
    /\ RunFrame
    /\ UNCHANGED <<result, job_listings, max_applications, applications_data,
                   successful_applications, failed_applications, aborted, quits,
                   navigated, interrupt, summary_logged, csv_file,
                   phases, failed_phase>>
    /\ sleeps' = sleeps + 1
    /\ application_count' = IF result.status THEN application_count + 1
                            ELSE application_count
    /\ job_index' = job_index + 1
    /\ rpc' = "for"

\* Lines 684-698.
Summary ==
    /\ rpc = "summary"
    /\ RunFrame
    /\ UNCHANGED <<result, job_listings, max_applications, application_count, job_index,
                   applications_data, aborted, quits, navigated, interrupt, csv_file,
                   sleeps, phases, failed_phase>>
    /\ successful_applications' = SuccessCount(applications_data)
    /\ failed_applications' = FailedCount(applications_data)
    /\ summary_logged' = TRUE
    /\ rpc' = ExitRun

\* A KeyboardInterrupt raised in the thread of run() while it is inside the
\* try block: run() has no except clause, so the exception goes to the
\* finally clause and leaves run().
Interrupt ==
    /\ rpc \in TryBlock
    /\ RunFrame
    /\ UNCHANGED <<result, job_listings, max_applications, application_count, job_index,
                   applications_data, successful_applications, failed_applications,
                   quits, navigated, summary_logged, csv_file,
                   sleeps, phases, failed_phase>>
    /\ interrupt' = rpc
    /\ aborted' = TRUE
    /\ rpc' = ExitRun

\* Lines 700-703.
Finally ==
    /\ rpc = "finally"
    /\ RunFrame
    /\ UNCHANGED <<result, job_listings, max_applications, application_count, job_index,
                   applications_data, successful_applications, failed_applications,
                   aborted, navigated, interrupt, summary_logged, csv_file,
                   sleeps, phases, failed_phase>>
    /\ quits' = quits + 1
    /\ rpc' = "done"

\* ------------------------------------------- utils.get_answer_for_question
\* Python's None, and a key the dictionary does not hold.
None == "None"
Absent == "<absent>"

\* A question is its words in order.  The words questions are drawn from:
\* keyword words in lower case and in other cases, and a word of no category.
Words == {"work", "experience", "Experience", "degree", "DEGREE",
          "relocate", "visa", "remote", "salary"}

Questions == UNION {[1..n -> Words] : n \in 0..MaxWords}

\* question.lower() (line 357), word by word.
LowerKeptCase(word) == word

Lower(word) ==
    CASE word = "Experience" -> "experience"
      [] word = "DEGREE" -> "degree"
      [] OTHER -> word

LowerText(text) == [k \in DOMAIN text |-> Lower(text[k])]

\* kw in question: the words of kw stand in the text, adjacent and in order.
IsIn(kw, text) ==
    \E k \in 1..(Len(text) - Len(kw) + 1) : SubSeq(text, k, k + Len(kw) - 1) = kw

\* any(kw in question for kw in [...])
AnyIn(keywords, text) == \E kw \in keywords : IsIn(kw, text)

\* The keyword lists of lines 360, 364, 368, 372 and 376.
ExperienceKeywords ==
    {<<"years", "of", "experience">>, <<"how", "long">>, <<"work", "experience">>}
EducationKeywords == {<<"education">>, <<"degree">>, <<"qualification">>}
RelocationKeywords == {<<"relocate">>, <<"relocation">>, <<"willing", "to", "move">>}
SponsorshipKeywords == {<<"sponsorship">>, <<"visa">>, <<"work", "authorization">>}
RemoteKeywords == {<<"remote">>, <<"work", "from", "home">>, <<"telecommute">>}

Keys == {"years_of_experience", "education_level", "willing_to_relocate",
         "require_sponsorship", "remote_work"}

\* The answer profiles: a key is missing, or holds the empty string, or holds
\* an answer of its own.
AnswerFor == [years_of_experience |-> "2", education_level |-> "Bachelor's",
              willing_to_relocate |-> "No", require_sponsorship |-> "Never",
              remote_work |-> "Yes"]

Profiles ==
    {d \in [Keys -> {Absent, ""} \cup {AnswerFor[k] : k \in Keys}] :
       \A k \in Keys : d[k] \in {Absent, "", AnswerFor[k]}}

\* default_answers.get(key)
Get(d, key) == IF d[key] = Absent THEN None ELSE d[key]

\* return None (line 379)
NoMatchAnswerEmpty == ""

NoMatchAnswer == None

\* Lines 357-379.
get_answer_for_question(q, d) ==
    LET text == LowerText(q) IN
    IF AnyIn(ExperienceKeywords, text) THEN Get(d, "years_of_experience")
    ELSE IF AnyIn(EducationKeywords, text) THEN Get(d, "education_level")
    ELSE IF AnyIn(RelocationKeywords, text) THEN Get(d, "willing_to_relocate")
    ELSE IF AnyIn(SponsorshipKeywords, text) THEN Get(d, "require_sponsorship")
    ELSE IF AnyIn(RemoteKeywords, text) THEN Get(d, "remote_work")
    ELSE NoMatchAnswer

\* One call of get_answer_for_question: the function reads its arguments and
\* returns.
GetAnswerForQuestion ==
    /\ upc = "call"
    /\ upc' = "returned"
    /\ answer' = get_answer_for_question(question, default_answers)
    /\ UNCHANGED <<question, default_answers>>
    /\ UNCHANGED <<avars, cvars, rvars, evars>>

\* ------------------------------------------------------------ entry points
\* The configurations: whether LINKEDIN_EMAIL and LINKEDIN_PASSWORD are set,
\* and for RESUME_PATH and COVER_LETTER_PATH whether the variable is unset,
\* names a file that exists, or names a missing file.
Paths == {"unset", "exists", "missing"}

Configs == [email : BOOLEAN, password : BOOLEAN, resume : Paths, cover : Paths]

\* validate_config (config.py, lines 98-117): the error text, or None.
validate_config(c) ==
    IF ~c.email THEN "LinkedIn email is not set"
    ELSE IF ~c.password THEN "LinkedIn password is not set"
    ELSE IF c.resume = "missing" THEN "Resume file not found"
    ELSE IF c.cover = "missing" THEN "Cover letter file not found"
    ELSE None

\* LinkedInJobBot.__init__ (lines 65-73): ValueError unless email and
\* password are set, else _setup_driver opens a browser session.
BotRaises(c) == ~c.email \/ ~c.password

EntryFrame == UNCHANGED <<avars, cvars, rvars, uvars>>

\* __main__.py, lines 61-66: validate_config, sys.exit(1) on an error.
ModuleMainValidate ==
    /\ entry = "module_main"
    /\ epc = "validate"
    /\ EntryFrame
    /\ UNCHANGED <<entry, config, sessions, tpc, bot_thread, start_button, callbacks, presses>>
    /\ validation' = validate_config(config)
    /\ epc' = IF validation' # None THEN "exit" ELSE "create"

\* __main__.py, lines 86-89, and linkedin_job_bot.py, line 730: the bot is
\* created.  In __main__ the ValueError is taken by except Exception (line
\* 94); in main() of linkedin_job_bot.py it ends the process.
CreateBot ==
    /\ entry \in {"module_main", "bot_main"}
    /\ epc = "create"
    /\ EntryFrame
    /\ UNCHANGED <<entry, config, validation, tpc, bot_thread, start_button, callbacks,
                   presses>>
    /\ IF BotRaises(config)
         THEN /\ epc' = IF entry = "module_main" THEN "logged" ELSE "raised"
              /\ sessions' = sessions
         ELSE /\ epc' = "run"
              /\ sessions' = sessions + 1

\* bot.run(...) (__main__.py line 89, linkedin_job_bot.py line 731).
BotRun ==
    /\ entry \in {"module_main", "bot_main"}
    /\ epc = "run"
    /\ EntryFrame
    /\ UNCHANGED <<entry, config, validation, sessions, tpc, bot_thread, start_button,
                   callbacks, presses>>
    /\ epc' = "done"

\* The threads start_bot has created so far, and the next one.
Born == {t \in DOMAIN tpc : tpc[t] # "unborn"}

\* self.bot_thread.is_alive() (gui.py, line 463)
IsAliveNever(t) == FALSE

IsAlive(t) == tpc[t] \notin {"unborn", "dead"}

\* start_bot (gui.py, lines 451-474), the command of the Start button: Tk
\* runs it only while the button is not disabled.
StartBot ==
    /\ entry = "gui"
    /\ epc = "mainloop"
    /\ start_button = "normal"
    /\ presses < MaxStarts
    /\ EntryFrame
    /\ UNCHANGED <<entry, config, epc, sessions, callbacks>>
    /\ presses' = presses + 1
    /\ validation' = validate_config(config)
    /\ IF validation' # None
         THEN UNCHANGED <<tpc, bot_thread, start_button>>
       ELSE IF bot_thread # 0 /\ IsAlive(bot_thread)
         THEN UNCHANGED <<tpc, bot_thread, start_button>>
       ELSE /\ start_button' = "disabled"
            /\ bot_thread' = Cardinality(Born) + 1
            /\ tpc' = [tpc EXCEPT ![bot_thread'] = "create"]

\* run_bot, line 483: self.bot = LinkedInJobBot(...).
RunBotCreate(t) ==
    /\ tpc[t] = "create"
    /\ EntryFrame
    /\ UNCHANGED <<entry, config, epc, validation, bot_thread, start_button, callbacks,
                   presses>>
    /\ IF BotRaises(config)
         THEN /\ tpc' = [tpc EXCEPT ![t] = "except"]
              /\ sessions' = sessions
         ELSE /\ tpc' = [tpc EXCEPT ![t] = "logger"]
              /\ sessions' = sessions + 1

\* run_bot, line 486: self.bot.logger; LinkedInJobBot has no attribute
\* logger (the logger of linkedin_job_bot.py, line 50, belongs to the
\* module), so AttributeError takes the thread to the except clause of line
\* 509 and bot.run (line 499) is not reached.
RunBotLogger(t) ==
    /\ tpc[t] = "logger"
    /\ EntryFrame
    /\ UNCHANGED <<entry, config, epc, validation, sessions, bot_thread, start_button,
                   callbacks, presses>>
    /\ tpc' = [tpc EXCEPT ![t] = "except"]

\* run_bot, lines 509-514: the except clause hands the main loop the call
\* that sets the button back to NORMAL.
RunBotExcept(t) ==
    /\ tpc[t] = "except"
    /\ EntryFrame
    /\ UNCHANGED <<entry, config, epc, validation, sessions, bot_thread, start_button,
                   presses>>
    /\ callbacks' = callbacks + 1
    /\ tpc' = [tpc EXCEPT ![t] = "return"]

\* run_bot returns and its thread ends.
RunBotReturn(t) ==
    /\ tpc[t] = "return"
    /\ EntryFrame
    /\ UNCHANGED <<entry, config, epc, validation, sessions, bot_thread, start_button,
                   callbacks, presses>>
    /\ tpc' = [tpc EXCEPT ![t] = "dead"]

\* The main loop runs a call queued by root.after(0, ...) at line 514.
AfterCallback ==
    /\ entry = "gui"
    /\ callbacks > 0
    /\ EntryFrame
    /\ UNCHANGED <<entry, config, epc, validation, sessions, tpc, bot_thread, presses>>
    /\ callbacks' = callbacks - 1
    /\ start_button' = "normal"

\* ------------------------------------------------------------ specifications
ApplyIdle ==
    /\ apc = "idle"
    /\ has_easy_apply = TRUE
    /\ phone_number = ""
    /\ phone_value = ""
    /\ resume_path = ""
    /\ current_step = 0
    /\ notes = {}
    /\ submit_button = FALSE
    /\ success_elements = FALSE
    /\ result = NoResult
    /\ exc = "none"
    /\ cycles = 0
    /\ ui = <<>>
    /\ sawSubmit = FALSE
    /\ noContinue = FALSE
    /\ follow_checked = FALSE

CollectIdle ==
    /\ shown = 0
    /\ cpc = "idle"
    /\ max_jobs = 0
    /\ job_cards = 0
    /\ i = 0
    /\ last_index = 0
    /\ job_count = 0
    /\ job_listings = <<>>
    /\ last_height = 0
    /\ scrolls = 0
    /\ clicks = <<>>
    /\ show_more = "none"
    /\ cresult = "none"

RunIdle ==
    /\ rpc = "idle"
    /\ max_applications = 0
    /\ application_count = 0
    /\ job_index = 1
    /\ applications_data = <<>>
    /\ successful_applications = 0
    /\ failed_applications = 0
    /\ aborted = FALSE
    /\ quits = 0
    /\ navigated = <<>>
    /\ interrupt = "none"
    /\ summary_logged = FALSE
    /\ csv_file = <<CsvHeader>>
    /\ sleeps = 0
    /\ phases = <<>>
    /\ failed_phase = "none"

ResolverIdle ==
    /\ upc = "idle"
    /\ question = <<>>
    /\ default_answers = <<>>
    /\ answer = "none"

EntryIdle ==
    /\ entry = "none"
    /\ config = <<>>
    /\ epc = "idle"
    /\ validation = "none"
    /\ sessions = 0
    /\ tpc = <<>>
    /\ bot_thread = 0
    /\ start_button = "normal"
    /\ callbacks = 0
    /\ presses = 0

\* One attempt: apply_to_job on one listing.
ApplyInit ==
    /\ apc = "apply"
    /\ has_easy_apply \in BOOLEAN
    /\ phone_number \in {"", "1234567890"}
    /\ phone_value \in {"", Prefilled}
    /\ resume_path \in {"", "resume.pdf"}
    /\ current_step = 0
    /\ notes = {}
    /\ submit_button = FALSE
    /\ success_elements = FALSE
    /\ result = NoResult
    /\ exc = "none"
    /\ cycles = 0
    /\ ui = <<>>
    /\ sawSubmit = FALSE
    /\ noContinue = FALSE
    /\ follow_checked \in BOOLEAN
    /\ feed = <<>>
    /\ CollectIdle
    /\ RunIdle
    /\ ResolverIdle
    /\ EntryIdle

ApplyNext ==
    \/ ApplyToJob
    \/ LoopTest
    \/ ReviewStep
    \/ SubmitStep
    \/ FieldsStep
    \/ UploadStep
    \/ FollowStep
    \/ NextStep
    \/ ManualStep
    \/ ExceptStep

SpecApply == ApplyInit /\ [][ApplyNext]_vars

\* One collection: scroll_through_jobs(max_jobs) on a search page.
CollectInit ==
    /\ ApplyIdle
    /\ RunIdle
    /\ ResolverIdle
    /\ EntryIdle
    /\ feed \in Feeds(MaxCards)
    /\ shown \in 0..Len(feed)
    /\ cpc = "start"
    /\ max_jobs \in 0..MaxJobs
    /\ job_cards = 0
    /\ i = 0
    /\ last_index = 0
    /\ job_count = 0
    /\ job_listings = <<>>
    /\ last_height = 0
    /\ scrolls = 0
    /\ clicks = [k \in 1..Len(feed) |-> 0]
    /\ show_more = "none"
    /\ cresult = "none"

CollectNext ==
    \/ ScrollStart
    \/ WhileCards
    \/ ProcessCard
    \/ ScrollDown

SpecCollect == CollectInit /\ [][CollectNext]_vars

\* The collector with its steps always taken: the thread of run() is not
\* suspended for ever while a step of scroll_through_jobs is possible.
SpecCollectFair == CollectInit /\ [][CollectNext]_vars /\ WF_vars(CollectNext)

\* One call of get_answer_for_question on any question and any profile.
ResolverInit ==
    /\ ApplyIdle
    /\ CollectIdle
    /\ RunIdle
    /\ EntryIdle
    /\ feed = <<>>
    /\ upc = "call"
    /\ question \in Questions
    /\ default_answers \in Profiles
    /\ answer = "none"

ResolverNext == GetAnswerForQuestion

SpecResolver == ResolverInit /\ [][ResolverNext]_vars

\* One start of the program by one of its entry points: python -m on the
\* package (__main__.py), main() of linkedin_job_bot.py, or the window.
EntryInit ==
    /\ entry \in {"module_main", "bot_main", "gui"}
    /\ config \in Configs
    /\ epc = CASE entry = "module_main" -> "validate"
               [] entry = "bot_main" -> "create"
               [] entry = "gui" -> "mainloop"
    /\ validation = "none"
    /\ sessions = 0
    /\ tpc = [t \in 1..MaxStarts |-> "unborn"]
    /\ bot_thread = 0
    /\ start_button = "normal"
    /\ callbacks = 0
    /\ presses = 0
    /\ feed = <<>>
    /\ ApplyIdle
    /\ CollectIdle
    /\ RunIdle
    /\ ResolverIdle

EntryNext ==
    \/ ModuleMainValidate
    \/ CreateBot
    \/ BotRun
    \/ StartBot
    \/ \E t \in DOMAIN tpc : RunBotCreate(t)
    \/ \E t \in DOMAIN tpc : RunBotLogger(t)
    \/ \E t \in DOMAIN tpc : RunBotExcept(t)
    \/ \E t \in DOMAIN tpc : RunBotReturn(t)
    \/ AfterCallback

SpecEntry == EntryInit /\ [][EntryNext]_vars

\* One run: run(keywords, location, max_applications) of a fresh bot.
RunInit ==
    /\ ApplyIdle
    /\ CollectIdle
    /\ ResolverIdle
    /\ EntryIdle
    /\ feed \in Feeds(MaxFeed)
    /\ rpc = "login"
    /\ max_applications \in 0..MaxApplications
    /\ application_count = 0
    /\ job_index = 1
    /\ applications_data = <<>>
    /\ successful_applications = 0
    /\ failed_applications = 0
    /\ aborted = FALSE
    /\ quits = 0
    /\ navigated = <<>>
    /\ interrupt = "none"
    /\ summary_logged = FALSE
    /\ csv_file = <<CsvHeader>>
    /\ sleeps = 0
    /\ phases = <<>>
    /\ failed_phase = "none"

RunNext ==
    \/ VerifyLogin
    \/ NavigateToJobs
    \/ SearchJobs
    \/ ScrollThroughJobs
    \/ ForJob
    \/ ApplyJob
    \/ LogApplication
    \/ CountAndSleep
    \/ Summary
    \/ Interrupt
    \/ Finally

SpecRun == RunInit /\ [][RunNext]_vars

\* run(), and calls of apply_to_job on any listing taken as far as its guard
\* (lines 417-418); the wizard behind the guard is in SpecApply.
GuardInit == ApplyInit \/ RunInit

GuardNext == ApplyToJob \/ RunNext

SpecGuard == GuardInit /\ [][GuardNext]_vars

\* ------------------------------------------------ properties of the wizard
\* The attempt went through the wizard loop and has ended.
AttemptEnded == apc = "done" /\ cycles > 0

\* C1: a form that shows a continue button on every screen, never a submit
\* button and raises nothing is given up after max_steps cycles with the
\* result (False, "Application process took too many steps"); until then the
\* loop has run at most max_steps times.
C1_StepCeiling ==
    /\ (~sawSubmit /\ ~noContinue) => cycles <= max_steps
    /\ (AttemptEnded /\ ~sawSubmit /\ ~noContinue /\ exc = "none")
         => /\ result = [ret |-> "return", status |-> FALSE,
                         msg |-> MsgTooManySteps, notes |-> {}]
            /\ cycles = max_steps
            /\ current_step = max_steps + 1

C1_Witness ==
    /\ AttemptEnded /\ ~sawSubmit /\ ~noContinue /\ exc = "none"
    /\ result.msg = MsgTooManySteps
    /\ cycles = max_steps

\* C2: whatever the screens show, the wizard loop runs at most max_steps
\* cycles in one attempt.
C2_CyclesWithinCeiling == cycles <= max_steps

\* C3: an attempt in which a submit click was followed by the confirmation
\* surface without a success indicator (and nothing was raised) ends with a
\* failed status and the note "Submission status unclear" in what it returns.
C3_AmbiguousSubmissionFails ==
    (AttemptEnded /\ NoteUnclear \in notes /\ exc = "none")
      => /\ result.ret = "return"
         /\ result.status = FALSE
         /\ NoteUnclear \in result.notes

\* C4: when the success indicator was found after the submit click and the
\* confirmation surface, the attempt returns a true status.
C4_SuccessIndicatorMeansSuccess ==
    (AttemptEnded /\ success_elements /\ exc # StaleElement)
      => result.ret = "return" /\ result.status = TRUE

\* C5: in a cycle that finds a submit button, every read or fill of a
\* required field comes after the click on submit.
C5_SubmitBeforeFields ==
    \A j \in 1..Len(ui) :
      (submit_button /\ ui[j] \in {"read_field", "type_phone"})
        => \E k \in 1..(j - 1) : ui[k] = "click_submit"

C5_Witness ==
    /\ submit_button
    /\ \E j \in 1..Len(ui) : ui[j] = "read_field"
    /\ \E j \in 1..Len(ui) : ui[j] = "click_submit"

\* C10: an element-not-found, click-intercepted or stale-element error raised
\* in a wizard cycle ends the attempt with the returned failure
\* "Error during application" whose notes hold the error.
C10_TransientErrorCaught ==
    (AttemptEnded /\ exc \in {NoSuchElement, ClickIntercepted, StaleElement})
      => /\ result.ret = "return"
         /\ result.status = FALSE
         /\ result.msg = MsgErrorDuring
         /\ NoteError \in result.notes

\* C14: once the wizard has clicked the 'follow company' control, the control
\* is deselected, whatever its state was when the form opened and however
\* many cycles clicked it.
C14_FollowDeselected == NoteFollow \in notes => ~follow_checked

\* C27: an attempt in which a cycle found neither a continue button nor a
\* submit button returns a failed status with the manual-intervention note.
C27_ManualInterventionReturned ==
    (apc = "done" /\ NoteManual \in notes)
      => /\ result.ret = "return"
         /\ ~result.status
         /\ NoteManual \in result.notes

\* The handler a driver operation of the wizard loop belongs to; the dismiss
\* sequence that ends an attempt belongs to none.
HandlerOf(op) ==
    CASE op = "click_review" -> "review"
      [] op = "click_submit" -> "submit"
      [] op \in {"read_field", "type_phone"} -> "fields"
      [] op = "upload" -> "upload"
      [] op = "click_follow" -> "follow"
      [] op = "click_next" -> "continue"
      [] OTHER -> "exit"

HandlersActing == {HandlerOf(ui[k]) : k \in DOMAIN ui} \ {"exit"}

\* C28: in one cycle of the wizard loop at most one of the handlers review,
\* submit, field errors, file upload, follow-company and continue performs a
\* UI operation.
C28_FirstMatchWins == Cardinality(HandlersActing) <= 1

\* C29: a successful click on the review button increments current_step by
\* one.
C29_ReviewIncrementsStep ==
    [][(apc = "review" /\ ui' = Append(ui, "click_review") /\ exc' = "none")
         => current_step' = current_step + 1]_vars

C6_NoDuplicateListings ==
    (cpc = "done" /\ cresult = "return")
      => \A a, b \in DOMAIN job_listings :
           a # b => job_listings[a] # job_listings[b]

\* C22: the collector's list never holds more than max_jobs listings, and
\* once it holds max_jobs listings no job card is clicked any more.
C22_AtMostMaxJobs ==
    /\ [](Len(job_listings) <= max_jobs /\ job_count = Len(job_listings))
    /\ [][Len(job_listings) >= max_jobs => clicks' = clicks]_vars

C22_Witness ==
    /\ cpc = "done"
    /\ max_jobs > 0
    /\ Len(job_listings) = max_jobs
    /\ shown > max_jobs

\* C23: a card whose click or extraction fails yields no listing and the
\* collection goes on, and no card is clicked more than once during a
\* collection.
C23_EachCardOnce == \A k \in DOMAIN clicks : clicks[k] <= 1

\* C24: a scroll that leaves the content height unchanged and finds no 'Show
\* more jobs' button ends the collection in that step, as a normal return of
\* the listings collected so far.
C24_EndOfResults ==
    [][(cpc = "scroll" /\ last_height' = last_height /\ show_more' = "absent")
         => /\ cpc' = "done"
            /\ cresult' = "return"
            /\ job_listings' = job_listings]_vars

C24_Witness ==
    /\ cpc = "done"
    /\ show_more = "absent"
    /\ cresult = "return"
    /\ job_listings # <<>>
    /\ Len(job_listings) < max_jobs

\* C25: scroll_through_jobs eventually returns or raises, whatever the page
\* does.
C25_CollectorTerminates == <>(cpc = "done")

\* C26: when the first wait for job cards times out, scroll_through_jobs
\* returns the empty list and has started no iteration of its loop (no
\* scroll) and clicked no card.
C26_FirstWaitTimeout ==
    /\ [][(cpc = "start" /\ shown = 0)
            => /\ cpc' = "done"
               /\ cresult' = "return"
               /\ job_listings' = <<>>
               /\ scrolls' = 0
               /\ clicks' = clicks]_vars
    /\ [](scrolls = 0 => \A k \in DOMAIN clicks : clicks[k] = 0)

C26_Witness ==
    /\ cpc = "done"
    /\ shown = 0
    /\ scrolls = 0
    /\ max_jobs > 0
    /\ Len(feed) > 0
    /\ job_listings = <<>>

\* ----------------------------------------------------- properties of run()
\* The end-to-end scenario: max_applications = 2, a page of 5 cards of which
\* 3 are Easy Apply and all 3 were collected, and attempts that succeed on
\* the 1st and 3rd Easy Apply listing and need manual intervention on the
\* 2nd; the run has ended.
EndToEndScenario ==
    /\ rpc = "done" /\ ~aborted
    /\ max_applications = 2
    /\ Len(feed) = 5
    /\ Cardinality({k \in DOMAIN feed : feed[k]}) = 3
    /\ Cardinality({j \in DOMAIN job_listings : feed[job_listings[j]]}) = 3
    /\ applications_data # <<>>
    /\ \A k \in DOMAIN applications_data :
         applications_data[k].notes = IF k = 2 THEN MsgManual ELSE MsgSubmitted

C8_AttemptsWithinBudget == Len(applications_data) <= max_applications

\* C8 (amended): the ledger never holds more than 2 * max_applications rows,
\* and never more than max_applications rows with status 'Success'.
C8_AttemptsWithinOverFetch ==
    /\ Len(applications_data) <= 2 * max_applications
    /\ SuccessCount(applications_data) <= max_applications

C8_Witness ==
    /\ max_applications > 0
    /\ Len(applications_data) = 2 * max_applications
    /\ SuccessCount(applications_data) < Len(applications_data)

\* C9: when run() ends after the collection, it has gone through the whole
\* list of listings or has met the success budget.
C9_RunOutlivesJobErrors ==
    rpc = "done"
      => \/ job_index > Len(job_listings)
         \/ application_count >= max_applications

\* C11: run() calls apply_to_job only for listings with has_easy_apply true
\* and records rows only for such listings, and apply_to_job called on a
\* listing with has_easy_apply false returns (False, 'Not an Easy Apply job')
\* without any UI operation.
C11_NotEasyApplySkipped ==
    /\ \A k \in DOMAIN navigated : feed[navigated[k]]
    /\ \A k \in DOMAIN applications_data : feed[applications_data[k].url]
    /\ (apc = "done" /\ ~has_easy_apply)
         => /\ result = [ret |-> "return", status |-> FALSE,
                         msg |-> MsgNotEasyApply, notes |-> {}]
            /\ ui = <<>>

C11_Witness ==
    /\ rpc = "done"
    /\ navigated # <<>>
    /\ \E k \in DOMAIN job_listings :
         /\ k < job_index
         /\ ~feed[job_listings[k]]

\* C12: outside apply_to_job and log_application, every call of apply_to_job
\* made so far has its one row in the ledger, in the order of the calls
\* (runs that a KeyboardInterrupt ended are left aside).
C12_OneRecordPerInvocation ==
    (rpc \in {"for", "summary", "finally", "done"} /\ interrupt = "none")
      => /\ Len(applications_data) = Len(navigated)
         /\ \A k \in DOMAIN navigated : applications_data[k].url = navigated[k]

\* C13: apply_to_job and log_application run only while the ledger holds fewer
\* than max_applications 'Success' rows, so the ledger never holds more than
\* max_applications of them.
C13_StopsAtBudget ==
    /\ rpc \in {"apply", "log"}
         => SuccessCount(applications_data) < max_applications
    /\ SuccessCount(applications_data) <= max_applications

C13_Witness ==
    /\ rpc = "summary"
    /\ max_applications > 0
    /\ SuccessCount(applications_data) = max_applications
    /\ \E k \in DOMAIN job_listings :
         /\ k >= job_index
         /\ feed[job_listings[k]]

\* C15: a run ended by a KeyboardInterrupt that arrived inside apply_to_job
\* has a row in the ledger for the interrupted attempt and has emitted the
\* summary.
C15_InterruptRecordedAndSummarised ==
    (rpc = "done" /\ interrupt = "apply")
      => /\ summary_logged
         /\ Len(applications_data) = Len(navigated)

\* C16: driver.quit() has been called exactly once when run() has ended,
\* whichever way it ended, and not at all while run() is still at work.
C16_QuitExactlyOnce ==
    /\ rpc \in TryBlock \cup {"finally"} => quits = 0
    /\ rpc = "done" => quits = 1
    /\ rpc \in TryBlock \cup {"finally", "done"}

C16_Witness ==
    /\ rpc = "done"
    /\ quits = 1
    /\ aborted
    /\ navigated # <<>>

\* C17: when run() has ended, the CSV ledger exists and the summary counts
\* have been emitted.
C17_AlwaysSummary ==
    rpc = "done"
      => /\ summary_logged
         /\ csv_file[1] = CsvHeader

\* C18: every step of the program that changes the ledger or the CSV file is
\* a log_application call that appends one row to each and keeps the rows
\* already there in their positions; no other step changes either.
C18_AppendOnly ==
    [][/\ SubSeq(applications_data', 1, Len(applications_data)) = applications_data
       /\ SubSeq(csv_file', 1, Len(csv_file)) = csv_file
       /\ IF rpc = "log" /\ rpc' = "count"
            THEN /\ Len(applications_data') = Len(applications_data) + 1
                 /\ Len(csv_file') = Len(csv_file) + 1
            ELSE /\ applications_data' = applications_data
                 /\ csv_file' = csv_file]_vars

C18_Witness ==
    /\ Len(applications_data) >= 2
    /\ applications_data[1] # applications_data[2]
    /\ Len(csv_file) >= 3

\* C19: between the operations of a run, and after a run that crashed, the
\* CSV file holds the header and then exactly the rows of the in-memory
\* ledger, in the same order.
C19_DiskMatchesMemory ==
    /\ Len(csv_file) = Len(applications_data) + 1
    /\ csv_file[1] = CsvHeader
    /\ \A k \in DOMAIN applications_data :
         csv_file[k + 1] = CsvRow(applications_data[k])

C19_Witness ==
    /\ rpc = "done"
    /\ aborted
    /\ Len(applications_data) >= 1
    /\ Len(csv_file) = Len(applications_data) + 1

\* a is b with some elements left out.
RECURSIVE IsSubsequence(_, _)
IsSubsequence(a, b) ==
    IF a = <<>> THEN TRUE
    ELSE IF b = <<>> THEN FALSE
    ELSE IF Head(a) = Head(b) THEN IsSubsequence(Tail(a), Tail(b))
    ELSE IsSubsequence(a, Tail(b))

LedgerJobs == [k \in DOMAIN applications_data |-> applications_data[k].url]

\* C20: the listings handed to apply_to_job are, in order, a subsequence of
\* the collector's list, and the ledger's jobs are the first of them in the
\* same order.
C20_DiscoveryOrder ==
    /\ IsSubsequence(navigated, job_listings)
    /\ Len(applications_data) <= Len(navigated)
    /\ LedgerJobs = SubSeq(navigated, 1, Len(applications_data))

C20_Witness ==
    /\ Len(applications_data) >= 2
    /\ applications_data[2].url > applications_data[1].url + 1

\* The rows of a ledger with the given status, counted row by row.
RECURSIVE RowsWithStatus(_, _)
RowsWithStatus(data, status) ==
    IF data = <<>> THEN 0
    ELSE (IF Head(data).status = status THEN 1 ELSE 0)
           + RowsWithStatus(Tail(data), status)

\* C21: the step that computes the summary leaves the ledger and the CSV
\* file as they are; its counts are the numbers of 'Success' rows and of the
\* other rows of the ledger, they add up to the number of rows, and the same
\* computation on the ledger it leaves gives the same counts again.
C21_SummaryIdempotent ==
    [][(rpc = "summary" /\ summary_logged')
         => /\ applications_data' = applications_data
            /\ csv_file' = csv_file
            /\ successful_applications' = RowsWithStatus(applications_data, "Success")
            /\ failed_applications' = RowsWithStatus(applications_data, "Failed")
            /\ successful_applications' + failed_applications'
                 = Len(applications_data)
            /\ SuccessCount(applications_data') = successful_applications'
            /\ FailedCount(applications_data') = failed_applications']_vars

C21_Witness ==
    /\ summary_logged
    /\ successful_applications >= 1
    /\ failed_applications >= 1
    /\ Len(applications_data) = successful_applications + failed_applications

\* C33: whatever the entry point, a browser session is open only on a
\* configuration for which validate_config returns no error.
C33_SessionOnlyOnValidConfig ==
    sessions > 0 => validate_config(config) = None

\* C34: at most one bot thread is alive at any time, every thread opens at
\* most one browser session, and a press of Start while a bot thread is alive
\* creates no thread and opens no session.
C34_OneBotThread ==
    /\ [](Cardinality({t \in DOMAIN tpc : IsAlive(t)}) <= 1)
    /\ [](entry = "gui" => sessions <= Cardinality(Born))
    /\ [][(presses' # presses /\ \E t \in DOMAIN tpc : tpc[t] \notin {"unborn", "dead"})
            => tpc' = tpc /\ sessions' = sessions /\ bot_thread' = bot_thread]_vars

C34_Witness ==
    /\ entry = "gui"
    /\ validation = None
    /\ presses = 2
    /\ Cardinality(Born) = 1
    /\ \E t \in DOMAIN tpc : tpc[t] = "return"

\* C37: a step of the attempt that clicks the submit button is never taken
\* after an earlier step of the same attempt clicked it.
C37_SubmitClickedAtMostOnce ==
    [][(apc = "submit" /\ submit_button') => ~sawSubmit]_vars

\* The loop iteration that ended the attempt clicked submit and then the
\* Dismiss button of the confirmation.
SubmitClickedAndConfirmed ==
    \E j \in 1..(Len(ui) - 1) : ui[j] = "click_submit" /\ ui[j + 1] = "click_dismiss"

\* C38: the attempt returns True only with the text 'Application submitted
\* successfully', after it clicked submit, the confirmation appeared and the
\* success indicator was found; and the status log_application writes for the
\* attempt is 'Success' only then.
C38_SuccessOnlyAfterConfirmedSubmit ==
    /\ result.status
         => /\ apc = "done"
            /\ result.ret = "return"
            /\ result.msg = MsgSubmitted
            /\ sawSubmit
            /\ success_elements
            /\ SubmitClickedAndConfirmed
    /\ (apc = "done" /\ result.ret = "return" /\ StatusText(result.status) = "Success")
         => /\ result.msg = MsgSubmitted
            /\ success_elements
            /\ SubmitClickedAndConfirmed

C38_Witness ==
    /\ apc = "done"
    /\ result.status
    /\ StatusText(result.status) = "Success"
    /\ cycles > 1

\* A step of the attempt that types the phone number.
TypesPhone == Len(ui') > Len(ui) /\ ui'[Len(ui')] = "type_phone"

\* C39: the attempt types the phone number only when one is configured and
\* only into a tel input whose value is empty, the input holds the number
\* afterwards, and no step of the attempt changes a value the input holds:
\* the input receives the number at most once in the attempt.
C39_PhoneOnlyIntoEmptyInput ==
    [][/\ TypesPhone => /\ phone_number # ""
                        /\ phone_value = ""
                        /\ phone_value' = phone_number
       /\ phone_value # "" => phone_value' = phone_value
       /\ phone_value' # phone_value => TypesPhone]_vars

C39_Witness ==
    /\ apc = "upload"
    /\ cycles > 1
    /\ phone_number # ""
    /\ phone_value = phone_number
    /\ NotePhone \in notes
    /\ ui # <<>>
    /\ ui[Len(ui)] = "read_field"

\* C32: outside apply_to_job and the recording of its result, the pacing
\* delays taken so far are as many as the listings handed to apply_to_job
\* (runs that a KeyboardInterrupt ended are left aside); skipped listings add
\* none.
C32_OneDelayPerAppliedListing ==
    (rpc \in {"for", "summary", "finally", "done"} /\ interrupt = "none")
      => sleeps = Len(navigated)

\* The phases of run() in their order.
PhaseOrder == <<"login", "navigate", "search", "collect", "apply">>

\* C35: the phases entered so far are the first ones of login, navigate,
\* search, collect, apply, in that order; and when verify_login,
\* navigate_to_jobs or search_jobs returned False, that phase is the last one
\* entered, nothing was collected, apply_to_job was not called and the ledger
\* has no row.
C35_PhaseOrderAndAbort ==
    /\ Len(phases) <= Len(PhaseOrder)
    /\ phases = SubSeq(PhaseOrder, 1, Len(phases))
    /\ failed_phase # "none"
         => /\ phases # <<>>
            /\ phases[Len(phases)] = failed_phase
            /\ rpc \in {"finally", "done"}
            /\ job_listings = <<>>
            /\ navigated = <<>>
            /\ applications_data = <<>>
            /\ csv_file = <<CsvHeader>>

C35_Witness ==
    /\ rpc = "done"
    /\ failed_phase = "search"
    /\ phases = <<"login", "navigate", "search">>

\* C36: the collector hands run() at most 2 * max_applications listings, so
\* apply_to_job is called at most 2 * max_applications times in a run and
\* the ledger gets at most 2 * max_applications rows.
C36_OverFetchBound ==
    /\ Len(job_listings) <= 2 * max_applications
    /\ Len(navigated) <= 2 * max_applications
    /\ Len(applications_data) <= 2 * max_applications

C36_Witness ==
    /\ rpc = "done"
    /\ max_applications > 0
    /\ Len(job_listings) = 2 * max_applications
    /\ Len(navigated) = 2 * max_applications
    /\ Len(feed) > 2 * max_applications

\* ------------------------------------------- properties of the resolver
\* The words of a text in the letter case of the keywords.
AsLowerCase(text) ==
    [k \in DOMAIN text |->
       CASE text[k] = "Experience" -> "experience"
         [] text[k] = "DEGREE" -> "degree"
         [] OTHER -> text[k]]

\* The categories in the order of the claim, and the categories a question
\* has a keyword of, whatever the letter case.
Priority ==
    << [keywords |-> ExperienceKeywords, key |-> "years_of_experience"],
       [keywords |-> EducationKeywords, key |-> "education_level"],
       [keywords |-> RelocationKeywords, key |-> "willing_to_relocate"],
       [keywords |-> SponsorshipKeywords, key |-> "require_sponsorship"],
       [keywords |-> RemoteKeywords, key |-> "remote_work"] >>

Matching(text) ==
    {c \in DOMAIN Priority : AnyIn(Priority[c].keywords, AsLowerCase(text))}

\* C31: a call on a question with no keyword of any category (in any letter
\* case) returns None, not the empty string, whatever the profile holds.
C31_NoMatchGivesNone ==
    (upc = "returned" /\ Matching(question) = {})
      => /\ answer = None
         /\ answer # ""

C31_Witness ==
    /\ upc = "returned"
    /\ question # <<>>
    /\ Matching(question) = {}
    /\ \E k \in Keys : default_answers[k] = ""
    /\ answer = None

\* The category of least rank among those matching.
First(categories) == CHOOSE c \in categories : \A other \in categories : c <= other

\* C40: the answer returned is the profile's entry for the first category, in
\* the order experience, education, relocation, sponsorship, remote work,
\* that the question has a keyword of; it is the answer the same question
\* gets in lower case; and the call leaves the profile as it was.
C40_PriorityAndCase ==
    /\ [](upc = "returned"
            => /\ Matching(question) # {}
                  => answer = Get(default_answers, Priority[First(Matching(question))].key)
               /\ answer = get_answer_for_question(AsLowerCase(question), default_answers))
    /\ [][default_answers' = default_answers /\ question' = question]_vars

C40_Witness ==
    /\ upc = "returned"
    /\ question = <<"visa", "DEGREE">>
    /\ default_answers["education_level"] = AnswerFor["education_level"]
    /\ default_answers["require_sponsorship"] = AnswerFor["require_sponsorship"]
    /\ answer = AnswerFor["education_level"]

====
